---- MODULE Spec2Model ----
\* W-Matrix Alignment Engine (server/alignment/w_matrix_engine.py):
\* a model of the WMatrixAlignmentEngine class, its constructor, compute_alignment,
\* transform, compute_epsilon, estimate_fidelity_boost, serialize and deserialize.
\*
\* Matrices are sequences of rows of integers.  The results of the numeric
\* library calls (lstsq, orthogonal_procrustes, svd) are data dependent; the
\* model keeps their shape contract and fills them with the entry 1.
\* Python's None is the empty sequence None, a present value x is Some(x).
EXTENDS Integers, Sequences, FiniteSets, TLC

\* ---------------------------------------------------------------- bounds
MaxDim == 3       \* the largest vector dimension D_source, D_target
MaxN == 3         \* the largest anchor count N
MaxOps == 2       \* state-changing calls (constructor, compute_alignment, deserialize) of a run

Dims == {1, 2, MaxDim}
Counts == {0, 1, MaxN}
Ranks == {0, 1, MaxDim + 1}         \* requested lora_rank: disabled, inside and above the clamp
EngineIds == {1, 2}                 \* instances: 1 is WMatrixAlignmentEngine() in Init, 2 is built by a later call

\* ---------------------------------------------------------------- values
None == << >>
Some(x) == << x >>
IsNone(o) == o = << >>
Get(o) == o[1]

Min(a, b) == IF a <= b THEN a ELSE b

\* STANDARD_DIMS.values()
STANDARD_DIMS == {4096, 8192}
\* the default of __init__'s standard_dim parameter
DefaultStd == 8192
\* standard_dim arguments tried: the two supported sizes and two unsupported ones
StdInputs == {4096, 8192, 0, 1024}

\* a rows x cols matrix with every entry v
Fill(rows, cols, v) == [i \in 1..rows |-> [j \in 1..cols |-> v]]
Rows(m) == Len(m)
Cols(m) == IF Len(m) = 0 THEN 0 ELSE Len(m[1])

\* numpy ndarray: ndim 2 with its rows, or the 0-d object array np.array(None)
\* / np.array("text") (ndim 0, no numeric data).
NdArray(m) == [ndim |-> 2, obj |-> "num", data |-> m]
NdNone == [ndim |-> 0, obj |-> "None", data |-> << >>]
NdText == [ndim |-> 0, obj |-> "text", data |-> << >>]

\* ---------------------------------------------------------------- errors
\* exception classes, by the place that raises them
ValueErrorCount == "ValueError: Source and target must have same number of samples"
ValueErrorStd == "ValueError: standard_dim must be one of [4096, 8192]"
RuntimeErrorNotReady == "RuntimeError: W-matrix not computed"
LinAlgError == "LinAlgError"
ShapeError == "ValueError: matmul shape mismatch"
BroadcastError == "ValueError: operands could not be broadcast together"
JSONDecodeError == "JSONDecodeError"
KeyErrorField == "KeyError"
TypeErrorJson == "TypeError"
ZeroDivisionError == "ZeroDivisionError"
Ok == "ok"

\* ---------------------------------------------------------------- engine
\* engines: the instances; last: what the caller saw of the latest call;
\* ops: the state-changing calls made so far; hist: how each instance was built,
\* whether a compute_alignment call on it has returned, and whether it is clean:
\* no call that raised has changed it and no damaged document built it; calls: the calls
\* that threads have in progress on instance 1 (SpecConc)
VARIABLES engines, last, ops, hist, calls
vars == << engines, last, ops, hist, calls >>

\* the threads of SpecConc, and a thread that has no call in progress
Threads == {1, 2}

Idle == [pc |-> "idle", op |-> "none", vectors |-> << >>, given |-> << >>, apply_lora |-> FALSE,
         target |-> << >>, eps |-> << >>, transformed |-> None, outcome |-> Ok, result |-> None]

\* the calls that only read the instance.  A run makes its state-changing
\* calls and then one reading call, whose outcome is observed in last.
ReadOps == {"transform", "compute_epsilon", "estimate_fidelity_boost", "serialize"}
Observed == last.op \in ReadOps

\* __init__ (lines 40-43): the fields of a fresh instance; metadata {} is None
NewEngine(std) ==
    [standard_dim |-> std, w_matrix |-> None, lora_adapter |-> None, metadata |-> None]

\* mutant: the constructor accepts every positive size
StdSupported_Positive(std) == std > 0

\* __init__ (lines 37-38): the constructor's check
StdSupported(std) == std \in STANDARD_DIMS

Live(i) == ~IsNone(engines[i])
Eng(i) == Get(engines[i])
\* mutant: the fields are attributes of the class, shared by its instances
SetInstance_ClassLevel(i, e) ==
    [j \in EngineIds |-> IF j = i \/ Live(j) THEN Some(e) ELSE None]

\* the fields written through self (lines 40-43, 128, 138, 179) or through the
\* new instance (lines 287-297) belong to that instance alone
SetInstance(i, e) == [engines EXCEPT ![i] = Some(e)]

\* the guard `self.w_matrix is None` of transform, compute_epsilon and serialize
NotReady(e) == IsNone(e.w_matrix)

\* ---------------------------------------------------------------- compute_alignment
\* the library calls of compute_alignment may raise (np.linalg.svd and lstsq
\* raise LinAlgError when the factorization does not converge): "base" is the
\* solve of lines 81/85, "lora" the lstsq/svd of lines 108/111, "spectrum" the
\* svd of lines 145/146.
FailPoints == {"none", "base", "lora", "spectrum"}

\* mutant: the check rejects only a shorter target sequence
CountsDiffer_OnlyFewerTargets(ns, nt) == ns > nt

\* line 67: the validation of the anchor counts
CountsDiffer(ns, nt) == ns # nt

\* mutant: least squares only when the source space is the larger one
Algorithm_OnlyWhenLarger(ds, dt) == IF ds > dt THEN "lstsq" ELSE "procrustes"

\* lines 77-86: the algorithm that computes W_base
Algorithm(ds, dt) == IF ds # dt THEN "lstsq" ELSE "procrustes"

\* mutant: the branch is taken for every positive rank
CorrectionEnabled_RankOnly(use_lora, lora_rank) == lora_rank > 0

\* line 97: the condition of the LoRA branch
CorrectionEnabled(use_lora, lora_rank) == use_lora /\ lora_rank > 0

\* line 111: len(S) of svd(W_lora_full, full_matrices=False), W_lora_full being ds x dt
LenS(ds, dt) == Min(ds, dt)

\* line 112: k = min(lora_rank, len(S))
EffectiveRank(lora_rank, ds, dt) == Min(lora_rank, LenS(ds, dt))

\* lines 115-116, 128-132: the adapter the LoRA branch stores
NewAdapter(lora_rank, ds, dt) ==
    LET k == EffectiveRank(lora_rank, ds, dt)
    IN  [A |-> NdArray(Fill(ds, k, 1)), B |-> NdArray(Fill(k, dt, 1)), rank |-> k]

\* lines 97-135: self.lora_adapter after the branch (the else branch assigns nothing)
AdapterAfter(e, use_lora, lora_rank, ds, dt) ==
    IF CorrectionEnabled(use_lora, lora_rank)
    THEN Some(NewAdapter(lora_rank, ds, dt))
    ELSE e.lora_adapter

\* lines 169-176: result["metadata"]
MetadataOf(ns, ds, dt, use_lora, lora_rank) ==
    [source_dim |-> ds, target_dim |-> dt, n_anchor_points |-> ns,
     use_lora |-> use_lora, lora_rank |-> IF use_lora THEN lora_rank ELSE 0]

\* lines 128-138: the instance after the adapter and W_base are stored
Stored(e, ds, dt, use_lora, lora_rank) ==
    [e EXCEPT !.lora_adapter = AdapterAfter(e, use_lora, lora_rank, ds, dt),
              !.w_matrix = Some(NdArray(Fill(ds, dt, 1)))]

\* lines 159-181: the instance and the result of a call that returns
Returned(e, ns, ds, dt, use_lora, lora_rank) ==
    LET stored == Stored(e, ds, dt, use_lora, lora_rank)
        meta == MetadataOf(ns, ds, dt, use_lora, lora_rank)
    IN  [outcome |-> Ok,
         engine |-> [stored EXCEPT !.metadata = Some(meta)],
         result |-> Some([w_matrix |-> Get(stored.w_matrix),
                          lora_adapter |-> stored.lora_adapter,
                          algorithm |-> Algorithm(ds, dt), metadata |-> meta])]

\* a call that raises: the exception and the instance it leaves
Raised(error, e) == [outcome |-> error, engine |-> e, result |-> None]

\* lines 145-153: s_source has min(N, D_source) entries, s_aligned has
\* min(N, D_target); their quotient raises unless the lengths are equal or
\* one of them is 1 (numpy broadcasting)
SpectraClash(ns, ds, dt) ==
    LET a == Min(ns, ds)
        b == Min(ns, dt)
    IN  a # b /\ a # 1 /\ b # 1

\* lines 137-181: W_base and the adapter are stored, then the spectra are
\* computed and compared, then the result is built
StoreAndReturn(e, ns, ds, dt, use_lora, lora_rank, fail) ==
    IF fail = "spectrum"
    THEN Raised(LinAlgError, Stored(e, ds, dt, use_lora, lora_rank))
    ELSE IF SpectraClash(ns, ds, dt)
    THEN Raised(BroadcastError, Stored(e, ds, dt, use_lora, lora_rank))
    ELSE Returned(e, ns, ds, dt, use_lora, lora_rank)

\* mutant: the call clears the stored transform on entry, before validating
CA_ClearsOnEntry(e, ns, nt, ds, dt, use_lora, lora_rank, fail) ==
    LET cleared == [e EXCEPT !.w_matrix = None, !.lora_adapter = None]
    IN  IF CountsDiffer(ns, nt) THEN Raised(ValueErrorCount, cleared)
        ELSE IF fail = "base" THEN Raised(LinAlgError, cleared)
        ELSE IF fail = "lora" /\ CorrectionEnabled(use_lora, lora_rank)
        THEN Raised(LinAlgError, cleared)
        ELSE StoreAndReturn(cleared, ns, ds, dt, use_lora, lora_rank, fail)

\* mutant: the call resets self.metadata on entry, before the count check
CA_ResetsMetadata(e, ns, nt, ds, dt, use_lora, lora_rank, fail) ==
    LET reset == [e EXCEPT !.metadata = None]
    IN  IF CountsDiffer(ns, nt) THEN Raised(ValueErrorCount, reset)
        ELSE IF fail = "base" THEN Raised(LinAlgError, reset)
        ELSE IF fail = "lora" /\ CorrectionEnabled(use_lora, lora_rank)
        THEN Raised(LinAlgError, reset)
        ELSE StoreAndReturn(reset, ns, ds, dt, use_lora, lora_rank, fail)

\* compute_alignment (lines 64-181) on engine e: the outcome, the engine after
\* the call and the returned result
CA(e, ns, nt, ds, dt, use_lora, lora_rank, fail) ==
    IF CountsDiffer(ns, nt) THEN Raised(ValueErrorCount, e)
    ELSE IF fail = "base" THEN Raised(LinAlgError, e)
    ELSE IF fail = "lora" /\ CorrectionEnabled(use_lora, lora_rank)
    THEN Raised(LinAlgError, e)
    ELSE StoreAndReturn(e, ns, ds, dt, use_lora, lora_rank, fail)

\* the arrays source_vectors (ns x ds) and target_vectors (nt x dt) the caller passes
Anchors(ns, nt, ds, dt) == [source |-> Fill(ns, ds, 1), target |-> Fill(nt, dt, 1)]

\* mutant: the residual of line 98 is computed in place, target_vectors -= aligned_base
AnchorsAfter_ResidualInPlace(an, use_lora, lora_rank) ==
    IF CorrectionEnabled(use_lora, lora_rank) /\ Rows(an.source) = Rows(an.target)
    THEN [an EXCEPT !.target = Fill(Rows(an.target), Cols(an.target), 1 - Cols(an.source))]
    ELSE an

\* lines 67-153: the caller's arrays after the call.  Every use of
\* source_vectors and target_vectors reads them: .shape, @, the subtractions of
\* lines 92, 98 and 123 (new arrays), lstsq, orthogonal_procrustes and svd
\* (which work on copies); no statement assigns into them
AnchorsAfter(an, use_lora, lora_rank) == an

\* what the caller observes of one compute_alignment call: the inputs and the
\* returned result (or the exception the shapes decide), or the exception
\* and the anchor counts
CallRecord(i, r, ns, nt, ds, dt, use_lora, lora_rank) ==
    LET passed == Anchors(ns, nt, ds, dt)
        held == AnchorsAfter(passed, use_lora, lora_rank)
    IN  [op |-> "compute_alignment", id |-> i, outcome |-> r.outcome,
         call |-> IF r.outcome \in {Ok, BroadcastError}
                  THEN Some([ns |-> ns, nt |-> nt, ds |-> ds, dt |-> dt,
                             use_lora |-> use_lora, lora_rank |-> lora_rank,
                             passed |-> passed, held |-> held])
                  ELSE Some([ns |-> ns, nt |-> nt, passed |-> passed, held |-> held]),
         result |-> r.result]

\* hist after a call on instance i with outcome r
HistAfter(i, r) ==
    IF r.outcome = Ok THEN [hist EXCEPT ![i].succeeded = TRUE]
    ELSE IF r.engine = Eng(i) THEN hist
    ELSE [hist EXCEPT ![i].clean = FALSE]

\* one call of compute_alignment on instance i.  The cases are the exits of
\* the handler, each enumerating the inputs that decide what the caller and
\* the instance see of it: a call that raises shows the caller the exception
\* only, so the inputs it never stored are not enumerated (the call that
\* raises in the spectrum step is made with one anchor pair).
ComputeAlignment(i) ==
    /\ ops < MaxOps
    /\ ~Observed
    /\ Live(i)
    /\ \/ \E ns \in Counts, nt \in Counts :
             /\ ns # nt
             /\ LET r == CA(Eng(i), ns, nt, 1, 1, FALSE, 0, "none")
                IN  /\ engines' = SetInstance(i, r.engine)
                    /\ last' = CallRecord(i, r, ns, nt, 1, 1, FALSE, 0)
                    /\ hist' = HistAfter(i, r)
       \/ \E n \in Counts, ds \in Dims, dt \in Dims, use_lora \in BOOLEAN, lora_rank \in Ranks :
             LET r == CA(Eng(i), n, n, ds, dt, use_lora, lora_rank, "none")
             IN  /\ engines' = SetInstance(i, r.engine)
                 /\ last' = CallRecord(i, r, n, n, ds, dt, use_lora, lora_rank)
                 /\ hist' = HistAfter(i, r)
       \/ \E n \in Counts, fail \in {"base", "lora"} :
             LET r == CA(Eng(i), n, n, 1, 1, TRUE, 1, fail)
             IN  /\ engines' = SetInstance(i, r.engine)
                 /\ last' = CallRecord(i, r, n, n, 1, 1, TRUE, 1)
                 /\ hist' = HistAfter(i, r)
       \/ \E ds \in Dims, dt \in Dims, use_lora \in BOOLEAN, lora_rank \in Ranks :
             /\ ~use_lora => lora_rank = 0
             /\ LET r == CA(Eng(i), 1, 1, ds, dt, use_lora, lora_rank, "spectrum")
                IN  /\ engines' = SetInstance(i, r.engine)
                    /\ last' = CallRecord(i, r, 1, 1, ds, dt, use_lora, lora_rank)
                    /\ hist' = HistAfter(i, r)
    /\ ops' = ops + 1
    /\ UNCHANGED calls

\* ---------------------------------------------------------------- constructor
\* WMatrixAlignmentEngine(standard_dim) assigned to the free slot i
Construct(i) ==
    /\ ops < MaxOps
    /\ ~Observed
    /\ ~Live(i)
    /\ \E std \in StdInputs :
          /\ engines' = IF StdSupported(std)
                        THEN SetInstance(i, NewEngine(std))
                        ELSE engines
          /\ last' = [op |-> "construct", id |-> i,
                      outcome |-> IF StdSupported(std) THEN Ok ELSE ValueErrorStd,
                      call |-> Some([standard_dim |-> std]), result |-> None]
          /\ hist' = IF StdSupported(std)
                     THEN [hist EXCEPT ![i] = [origin |-> "constructor", succeeded |-> FALSE,
                                                 clean |-> TRUE]]
                     ELSE hist
    /\ ops' = ops + 1
    /\ UNCHANGED calls

\* ---------------------------------------------------------------- transform
\* sum of f[1..n]
RECURSIVE SumTo(_, _)
SumTo(f, n) == IF n = 0 THEN 0 ELSE f[n] + SumTo(f, n - 1)

\* numpy's X @ W for 2-d operands of matching inner dimension
MatMul(X, W) ==
    [i \in 1..Rows(X) |-> [j \in 1..Cols(W) |->
        SumTo([l \in 1..Cols(X) |-> X[i][l] * W[l][j]], Cols(X))]]

\* X @ W is defined: W is a 2-d array whose row count is X's column count
CanMul(X, nd) == nd.ndim = 2 /\ Cols(X) = Rows(nd.data)

\* numpy's in-place `t += c` for 2-d arrays with the same row count: c must
\* have t's column count, or one column (broadcast)
CanAddInto(t, c) == Cols(c) = Cols(t) \/ Cols(c) = 1
AddInto(t, c) ==
    [i \in 1..Rows(t) |-> [j \in 1..Cols(t) |->
        t[i][j] + (IF Cols(c) = Cols(t) THEN c[i][j] ELSE c[i][1])]]

\* transform (lines 194-209)
TransformOf(e, X, apply_lora) ==
    IF NotReady(e)
    THEN [outcome |-> RuntimeErrorNotReady, value |-> None]
    ELSE LET W == Get(e.w_matrix)
         IN  IF ~CanMul(X, W)
             THEN [outcome |-> ShapeError, value |-> None]
             ELSE LET transformed == MatMul(X, W.data)
                  IN  IF apply_lora /\ ~IsNone(e.lora_adapter)
                      THEN LET A == Get(e.lora_adapter).A
                               B == Get(e.lora_adapter).B
                           IN  IF ~CanMul(X, A) \/ ~CanMul(MatMul(X, A.data), B)
                               THEN [outcome |-> ShapeError, value |-> None]
                               ELSE LET lora_correction == MatMul(MatMul(X, A.data), B.data)
                                    IN  IF ~CanAddInto(transformed, lora_correction)
                                        THEN [outcome |-> ShapeError, value |-> None]
                                        ELSE [outcome |-> Ok,
                                              value |-> Some(AddInto(transformed, lora_correction))]
                      ELSE [outcome |-> Ok, value |-> Some(transformed)]

\* input batches: one row of dimension d, every entry 1
Batches == { Fill(1, d, 1) : d \in Dims }

Transform(i) ==
    /\ ~Observed
    /\ Live(i)
    /\ \E X \in Batches, apply_lora \in BOOLEAN :
          LET r == TransformOf(Eng(i), X, apply_lora)
          IN  last' = [op |-> "transform", id |-> i, outcome |-> r.outcome,
                       call |-> Some([vectors |-> X, apply_lora |-> apply_lora]),
                       result |-> r.value]
    /\ UNCHANGED << engines, hist, ops, calls >>

\* ---------------------------------------------------------------- compute_epsilon
\* np.linalg.norm(aligned - target.reshape(1, -1)) ** 2 with numpy broadcasting
\* of the two one-row arrays
CanSub(a, t) == Cols(a) = Len(t) \/ Cols(a) = 1 \/ Len(t) = 1
SqDist(a, t) ==
    LET n == IF Cols(a) >= Len(t) THEN Cols(a) ELSE Len(t)
        d == [j \in 1..n |-> (IF Cols(a) = 1 THEN a[1][1] ELSE a[1][j])
                             - (IF Len(t) = 1 THEN t[1] ELSE t[j])]
    IN  SumTo([j \in 1..n |-> d[j] * d[j]], n)

\* mutant: the error of the base matrix alone, transform(..., apply_lora=False)
EpsilonOf_BaseOnly(e, source_vector, target_vector) ==
    IF NotReady(e)
    THEN [outcome |-> RuntimeErrorNotReady, value |-> None]
    ELSE LET aligned == TransformOf(e, << source_vector >>, FALSE)
         IN  IF aligned.outcome # Ok
             THEN [outcome |-> aligned.outcome, value |-> None]
             ELSE IF ~CanSub(Get(aligned.value), target_vector)
             THEN [outcome |-> ShapeError, value |-> None]
             ELSE [outcome |-> Ok, value |-> Some(SqDist(Get(aligned.value), target_vector))]

\* compute_epsilon (lines 224-230)
EpsilonOf(e, source_vector, target_vector) ==
    IF NotReady(e)
    THEN [outcome |-> RuntimeErrorNotReady, value |-> None]
    ELSE LET aligned == TransformOf(e, << source_vector >>, TRUE)
         IN  IF aligned.outcome # Ok
             THEN [outcome |-> aligned.outcome, value |-> None]
             ELSE IF ~CanSub(Get(aligned.value), target_vector)
             THEN [outcome |-> ShapeError, value |-> None]
             ELSE [outcome |-> Ok, value |-> Some(SqDist(Get(aligned.value), target_vector))]

Vectors == { [j \in 1..d |-> 1] : d \in Dims }

ComputeEpsilon(i) ==
    /\ ~Observed
    /\ Live(i)
    /\ \E sv \in Vectors, tv \in Vectors :
          LET r == EpsilonOf(Eng(i), sv, tv)
          IN  last' = [op |-> "compute_epsilon", id |-> i, outcome |-> r.outcome,
                       call |-> Some([source_vector |-> sv, target_vector |-> tv]),
                       result |-> r.value]
    /\ UNCHANGED << engines, hist, ops, calls >>

\* ---------------------------------------------------------------- estimate_fidelity_boost
\* epsilon and baseline_epsilon arguments; every quotient they produce is whole
EpsInputs == {0 - 1, 0, 1, 2}

\* estimate_fidelity_boost (lines 245-249)
BoostOf(epsilon, baseline_epsilon) ==
    IF epsilon >= baseline_epsilon
    THEN [outcome |-> Ok, value |-> Some(0)]
    ELSE IF baseline_epsilon = 0
    THEN [outcome |-> ZeroDivisionError, value |-> None]
    ELSE LET boost_pct == ((baseline_epsilon - epsilon) * 100) \div baseline_epsilon
             lower == IF boost_pct > 0 THEN boost_pct ELSE 0
         IN  [outcome |-> Ok, value |-> Some(Min(100, lower))]

EstimateFidelityBoost(i) ==
    /\ ~Observed
    /\ Live(i)
    /\ \E epsilon \in EpsInputs, baseline_epsilon \in EpsInputs :
          LET r == BoostOf(epsilon, baseline_epsilon)
          IN  last' = [op |-> "estimate_fidelity_boost", id |-> i, outcome |-> r.outcome,
                       call |-> Some([epsilon |-> epsilon, baseline_epsilon |-> baseline_epsilon]),
                       result |-> r.value]
    /\ UNCHANGED << engines, hist, ops, calls >>

\* ---------------------------------------------------------------- serialize
\* JSON values a matrix field can hold: a nested list of numbers, null, a string
JArr(m) == [t |-> "array", v |-> m]
JNull == [t |-> "null", v |-> << >>]
JStr == [t |-> "string", v |-> << >>]

FieldNames == {"w_matrix", "lora_adapter", "metadata", "standard_dim"}

\* mutant: only the first row of a matrix is written
ToList_FirstRow(nd) ==
    IF nd.ndim = 2 THEN JArr(<< nd.data[1] >>)
    ELSE IF nd.obj = "None" THEN JNull ELSE JStr

\* ndarray.tolist() (lines 262, 264, 265)
ToList(nd) ==
    IF nd.ndim = 2 THEN JArr(nd.data)
    ELSE IF nd.obj = "None" THEN JNull ELSE JStr

\* serialize (lines 258-272): the JSON text, as the document it parses to.
\* json is FALSE for a text that is no JSON, object is FALSE for a JSON value
\* that is no object (a list, a number); keys are the fields present.
SerializeOf(e) ==
    IF NotReady(e)
    THEN [outcome |-> RuntimeErrorNotReady, doc |-> None]
    ELSE [outcome |-> Ok,
          doc |-> Some([json |-> TRUE, object |-> TRUE,
                        keys |-> FieldNames,
                        w_matrix |-> ToList(Get(e.w_matrix)),
                        lora_adapter |->
                            IF ~IsNone(e.lora_adapter)
                            THEN Some([A |-> ToList(Get(e.lora_adapter).A),
                                       B |-> ToList(Get(e.lora_adapter).B),
                                       rank |-> Get(e.lora_adapter).rank])
                            ELSE None,
                        metadata |-> e.metadata,
                        standard_dim |-> e.standard_dim])]

Serialize(i) ==
    /\ ~Observed
    /\ Live(i)
    /\ LET r == SerializeOf(Eng(i))
       IN  last' = [op |-> "serialize", id |-> i, outcome |-> r.outcome,
                    call |-> None, result |-> r.doc]
    /\ UNCHANGED << engines, hist, ops, calls >>

\* ---------------------------------------------------------------- deserialize
\* np.array(value) of a parsed JSON value (lines 288, 292, 293)
NpArray(jv) ==
    IF jv.t = "array" THEN NdArray(jv.v)
    ELSE IF jv.t = "null" THEN NdNone ELSE NdText

\* mutant: the instance is built without the constructor's check
DocStdSupported_Unchecked(doc) == TRUE

\* line 287: cls(standard_dim=data["standard_dim"]) runs the constructor's check
DocStdSupported(doc) == StdSupported(doc.standard_dim)

\* mutant: the metadata is not restored, the instance keeps the {} of __init__
LoadedMetadata_Dropped(doc) == None

\* line 297: engine.metadata = data["metadata"]; json carries the metadata's
\* integers and booleans unchanged
LoadedMetadata(doc) == doc.metadata

\* deserialize (lines 285-299): the outcome and the instance returned
DeserializeOf(doc) ==
    IF ~doc.json
    THEN [outcome |-> JSONDecodeError, engine |-> None]
    ELSE IF ~doc.object
    THEN [outcome |-> TypeErrorJson, engine |-> None]
    ELSE IF "standard_dim" \notin doc.keys
    THEN [outcome |-> KeyErrorField, engine |-> None]
    ELSE IF ~DocStdSupported(doc)
    THEN [outcome |-> ValueErrorStd, engine |-> None]
    ELSE IF "w_matrix" \notin doc.keys \/ "lora_adapter" \notin doc.keys
            \/ "metadata" \notin doc.keys
    THEN [outcome |-> KeyErrorField, engine |-> None]
    ELSE [outcome |-> Ok,
          engine |-> Some([NewEngine(doc.standard_dim) EXCEPT
                             !.w_matrix = Some(NpArray(doc.w_matrix)),
                             !.lora_adapter =
                                 IF ~IsNone(doc.lora_adapter)
                                 THEN Some([A |-> NpArray(Get(doc.lora_adapter).A),
                                            B |-> NpArray(Get(doc.lora_adapter).B),
                                            rank |-> Get(doc.lora_adapter).rank])
                                 ELSE None,
                             !.metadata = LoadedMetadata(doc)])]

\* a document written by hand: a 1 x 1 base matrix, no adapter, empty metadata
HandDoc ==
    [json |-> TRUE, object |-> TRUE, keys |-> FieldNames, w_matrix |-> JArr(Fill(1, 1, 1)),
     lora_adapter |-> None, metadata |-> None, standard_dim |-> 4096]

\* the ways the text handed to deserialize differs from a serialized document
\* ("a_null": the field A of the lora_adapter object is null)
DocKinds == {"intact", "not_json", "not_object", "no_standard_dim", "no_w_matrix", "no_lora_adapter",
             "no_metadata", "w_null", "w_text", "a_null", "std_unsupported"}

Damage(doc, kind) ==
    CASE kind = "intact" -> doc
      [] kind = "not_json" -> [doc EXCEPT !.json = FALSE]
      [] kind = "not_object" -> [doc EXCEPT !.object = FALSE]
      [] kind = "no_standard_dim" -> [doc EXCEPT !.keys = @ \ {"standard_dim"}]
      [] kind = "no_w_matrix" -> [doc EXCEPT !.keys = @ \ {"w_matrix"}]
      [] kind = "no_lora_adapter" -> [doc EXCEPT !.keys = @ \ {"lora_adapter"}]
      [] kind = "no_metadata" -> [doc EXCEPT !.keys = @ \ {"metadata"}]
      [] kind = "w_null" -> [doc EXCEPT !.w_matrix = JNull]
      [] kind = "w_text" -> [doc EXCEPT !.w_matrix = JStr]
      [] kind = "a_null" -> [doc EXCEPT !.lora_adapter =
                                IF IsNone(@) THEN @ ELSE Some([Get(@) EXCEPT !.A = JNull])]
      [] kind = "std_unsupported" -> [doc EXCEPT !.standard_dim = 1024]

\* the sources of a document: 0 is HandDoc, j the serialization of instance j
DocSources == {0} \cup { j \in EngineIds : Live(j) /\ ~NotReady(Eng(j)) }
DocOf(j) == IF j = 0 THEN HandDoc ELSE Get(SerializeOf(Eng(j)).doc)

\* engine = WMatrixAlignmentEngine.deserialize(text), assigned to the free slot i
Deserialize(i) ==
    /\ ops < MaxOps
    /\ ~Observed
    /\ ~Live(i)
    /\ \E j \in DocSources, kind \in DocKinds :
          LET r == DeserializeOf(Damage(DocOf(j), kind))
          IN  /\ kind = "a_null" => ~IsNone(DocOf(j).lora_adapter)
              /\ engines' = IF r.outcome = Ok THEN SetInstance(i, Get(r.engine)) ELSE engines
              /\ last' = [op |-> "deserialize", id |-> i, outcome |-> r.outcome,
                          call |-> Some([from |-> j, kind |-> kind]), result |-> None]
              /\ hist' = IF r.outcome = Ok
                         THEN [hist EXCEPT ![i] = [origin |-> "deserialize", succeeded |-> FALSE,
                                                 clean |-> kind = "intact" /\ j # 0
                                                           /\ hist[j].clean]]
                         ELSE hist
    /\ ops' = ops + 1
    /\ UNCHANGED calls

Init ==
    /\ engines = [i \in EngineIds |-> IF i = 1 THEN Some(NewEngine(DefaultStd)) ELSE None]
    /\ last = [op |-> "init", id |-> 1, outcome |-> Ok, call |-> None, result |-> None]
    /\ ops = 0
    /\ hist = [i \in EngineIds |-> [origin |-> IF i = 1 THEN "constructor" ELSE "none",
                                     succeeded |-> FALSE, clean |-> i = 1]]
    /\ calls = [t \in Threads |-> Idle]

Next ==
    \/ \E i \in EngineIds : Construct(i)
    \/ \E i \in EngineIds : ComputeAlignment(i)
    \/ \E i \in EngineIds : Transform(i)
    \/ \E i \in EngineIds : ComputeEpsilon(i)
    \/ \E i \in EngineIds : EstimateFidelityBoost(i)
    \/ \E i \in EngineIds : Serialize(i)
    \/ \E i \in EngineIds : Deserialize(i)

Spec == Init /\ [][Next]_vars

\* ---------------------------------------------------------------- threads
\* SpecConc: threads call transform, compute_epsilon, serialize and
\* estimate_fidelity_boost on instance 1 at the same time.  A call is a
\* sequence of steps, one per read of an attribute of the instance, and the
\* steps of different threads interleave.
\* a call ends: it returns value (Some) or raises outcome
Done(c, outcome, value) ==
    [c EXCEPT !.pc = "done", !.outcome = outcome, !.result = value]

\* mutant: the correction is added whatever apply_lora says
Corrected_IgnoresFlag(e, c) ==
    LET X == c.vectors
        transformed == Get(c.transformed)
    IN  IF ~IsNone(e.lora_adapter)
        THEN LET A == Get(e.lora_adapter).A
                 B == Get(e.lora_adapter).B
             IN  IF ~CanMul(X, A) \/ ~CanMul(MatMul(X, A.data), B)
                 THEN [outcome |-> ShapeError, transformed |-> None]
                 ELSE LET lora_correction == MatMul(MatMul(X, A.data), B.data)
                      IN  IF ~CanAddInto(transformed, lora_correction)
                          THEN [outcome |-> ShapeError, transformed |-> None]
                          ELSE [outcome |-> Ok,
                                transformed |-> Some(AddInto(transformed, lora_correction))]
        ELSE [outcome |-> Ok, transformed |-> c.transformed]

\* lines 201-207: the corrected local array, or the exception of the products
Corrected(e, c) ==
    LET X == c.vectors
        transformed == Get(c.transformed)
    IN  IF c.apply_lora /\ ~IsNone(e.lora_adapter)
        THEN LET A == Get(e.lora_adapter).A
                 B == Get(e.lora_adapter).B
             IN  IF ~CanMul(X, A) \/ ~CanMul(MatMul(X, A.data), B)
                 THEN [outcome |-> ShapeError, transformed |-> None]
                 ELSE LET lora_correction == MatMul(MatMul(X, A.data), B.data)
                      IN  IF ~CanAddInto(transformed, lora_correction)
                          THEN [outcome |-> ShapeError, transformed |-> None]
                          ELSE [outcome |-> Ok,
                                transformed |-> Some(AddInto(transformed, lora_correction))]
        ELSE [outcome |-> Ok, transformed |-> c.transformed]

\* mutant: the sum is written into the stored base matrix
AddCorrection_IntoStored(e, c) ==
    LET r == Corrected(e, c)
    IN  [outcome |-> r.outcome, transformed |-> r.transformed, vectors |-> c.vectors,
         engine |-> IF r.outcome = Ok
                    THEN [e EXCEPT !.w_matrix = Some(NdArray(Get(r.transformed)))]
                    ELSE e]

\* lines 201-207: `transformed += lora_correction` writes the local array that
\* line 198 allocated; the instance and the input batch are left as they are
AddCorrection(e, c) ==
    LET r == Corrected(e, c)
    IN  [outcome |-> r.outcome, transformed |-> r.transformed, vectors |-> c.vectors,
         engine |-> e]

\* a thread starts a call
Begin(t) ==
    /\ calls[t].pc = "idle"
    /\ \/ \E X \in Batches, apply_lora \in BOOLEAN :
             calls' = [calls EXCEPT ![t] = [Idle EXCEPT !.pc = "guard", !.op = "transform",
                                             !.vectors = X, !.given = X,
                                             !.apply_lora = apply_lora]]
       \/ \E sv \in Vectors, tv \in Vectors :
             calls' = [calls EXCEPT ![t] = [Idle EXCEPT !.pc = "guard_epsilon",
                                             !.op = "compute_epsilon",
                                             !.vectors = << sv >>, !.given = << sv >>,
                                             !.apply_lora = TRUE, !.target = tv]]
       \/ calls' = [calls EXCEPT ![t] = [Idle EXCEPT !.pc = "whole", !.op = "serialize"]]
       \/ \E epsilon \in EpsInputs, baseline_epsilon \in EpsInputs :
             calls' = [calls EXCEPT ![t] = [Idle EXCEPT !.pc = "whole",
                                             !.op = "estimate_fidelity_boost",
                                             !.eps = << epsilon, baseline_epsilon >>]]
    /\ UNCHANGED << engines, last, ops, hist >>

\* line 224: the guard of compute_epsilon
GuardEpsilon(t) ==
    /\ calls[t].pc = "guard_epsilon"
    /\ LET c == calls[t]
       IN  calls' = [calls EXCEPT ![t] =
                        IF NotReady(Eng(1)) THEN Done(c, RuntimeErrorNotReady, None)
                        ELSE [c EXCEPT !.pc = "guard"]]
    /\ UNCHANGED << engines, last, ops, hist >>

\* line 194: the guard of transform
Guard(t) ==
    /\ calls[t].pc = "guard"
    /\ LET c == calls[t]
       IN  calls' = [calls EXCEPT ![t] =
                        IF NotReady(Eng(1)) THEN Done(c, RuntimeErrorNotReady, None)
                        ELSE [c EXCEPT !.pc = "base"]]
    /\ UNCHANGED << engines, last, ops, hist >>

\* line 198: transformed = vectors @ self.w_matrix
Base(t) ==
    /\ calls[t].pc = "base"
    /\ LET c == calls[t]
           W == Get(Eng(1).w_matrix)
       IN  calls' = [calls EXCEPT ![t] =
                        IF ~CanMul(c.vectors, W)
                        THEN Done(c, ShapeError, None)
                        ELSE [c EXCEPT !.pc = "adapter",
                                       !.transformed = Some(MatMul(c.vectors, W.data))]]
    /\ UNCHANGED << engines, last, ops, hist >>

\* lines 201-209: the correction is added and transform returns
Adapter(t) ==
    /\ calls[t].pc = "adapter"
    /\ LET r == AddCorrection(Eng(1), calls[t])
           c == [calls[t] EXCEPT !.vectors = r.vectors, !.transformed = r.transformed]
       IN  /\ engines' = SetInstance(1, r.engine)
           /\ calls' = [calls EXCEPT ![t] =
                           IF r.outcome # Ok THEN Done(c, r.outcome, None)
                           ELSE IF c.op = "transform" THEN Done(c, Ok, c.transformed)
                           ELSE [c EXCEPT !.pc = "norm"]]
    /\ UNCHANGED << last, ops, hist >>

\* line 228-230: the squared distance of compute_epsilon
Norm(t) ==
    /\ calls[t].pc = "norm"
    /\ LET c == calls[t]
       IN  calls' = [calls EXCEPT ![t] =
                        IF ~CanSub(Get(c.transformed), c.target)
                        THEN Done(c, ShapeError, None)
                        ELSE Done(c, Ok, Some(SqDist(Get(c.transformed), c.target)))]
    /\ UNCHANGED << engines, last, ops, hist >>

\* serialize (lines 258-272) and estimate_fidelity_boost (lines 245-249)
Whole(t) ==
    /\ calls[t].pc = "whole"
    /\ LET c == calls[t]
       IN  calls' = [calls EXCEPT ![t] =
                        IF c.op = "serialize"
                        THEN Done(c, SerializeOf(Eng(1)).outcome, SerializeOf(Eng(1)).doc)
                        ELSE Done(c, BoostOf(c.eps[1], c.eps[2]).outcome,
                                  BoostOf(c.eps[1], c.eps[2]).value)]
    /\ UNCHANGED << engines, last, ops, hist >>

\* the instances the threads share: a fresh one, one after a returned
\* compute_alignment call, and one after a second returned call without
\* correction on the transposed dimensions
AfterOneCall ==
    { Returned(NewEngine(DefaultStd), 1, ds, dt, use_lora, 1).engine :
          ds \in Dims, dt \in Dims, use_lora \in BOOLEAN }
AfterTwoCalls ==
    { Returned(Returned(NewEngine(DefaultStd), 1, ds, dt, TRUE, 1).engine,
               1, dt, ds, FALSE, 0).engine : ds \in Dims, dt \in Dims }
SharedEngines == {NewEngine(DefaultStd)} \cup AfterOneCall \cup AfterTwoCalls

InitConc ==
    /\ \E e \in SharedEngines :
          engines = [i \in EngineIds |-> IF i = 1 THEN Some(e) ELSE None]
    /\ last = [op |-> "init", id |-> 1, outcome |-> Ok, call |-> None, result |-> None]
    /\ ops = 0
    /\ hist = [i \in EngineIds |-> [origin |-> IF i = 1 THEN "constructor" ELSE "none",
                                     succeeded |-> FALSE, clean |-> i = 1]]
    /\ calls = [t \in Threads |-> Idle]

NextConc ==
    \/ \E t \in Threads : Begin(t)
    \/ \E t \in Threads : GuardEpsilon(t)
    \/ \E t \in Threads : Guard(t)
    \/ \E t \in Threads : Base(t)
    \/ \E t \in Threads : Adapter(t)
    \/ \E t \in Threads : Norm(t)
    \/ \E t \in Threads : Whole(t)

SpecConc == InitConc /\ [][NextConc]_vars

\* ---------------------------------------------------------------- race
\* SpecRace: thread 1 makes read calls on instance 1 (the steps of SpecConc)
\* while thread 2 runs one compute_alignment call on the same instance.  The
\* call works on local arrays up to line 127 and then writes self.lora_adapter
\* (line 128), self.w_matrix (line 138) and self.metadata (line 179), one
\* attribute at a time; no lock is taken anywhere in the class.
\* thread 2 enters compute_alignment; before is the instance at that moment
BeginCompute ==
    /\ calls[2].pc = "idle"
    /\ \E ns \in {1, MaxN}, ds \in Dims, dt \in Dims, use_lora \in BOOLEAN :
          calls' = [calls EXCEPT ![2] =
                       [pc |-> "adapter", op |-> "compute_alignment", ns |-> ns, ds |-> ds,
                        dt |-> dt, use_lora |-> use_lora, lora_rank |-> 1,
                        before |-> Eng(1), outcome |-> Ok]]
    /\ UNCHANGED << engines, last, ops, hist >>

\* lines 97-135: the branch stores the new adapter, or nothing
StoreAdapter ==
    /\ calls[2].pc = "adapter"
    /\ LET w == calls[2]
       IN  engines' = SetInstance(1, [Eng(1) EXCEPT !.lora_adapter =
                          AdapterAfter(Eng(1), w.use_lora, w.lora_rank, w.ds, w.dt)])
    /\ calls' = [calls EXCEPT ![2].pc = "base"]
    /\ UNCHANGED << last, ops, hist >>

\* line 138: self.w_matrix = W_base
StoreBase ==
    /\ calls[2].pc = "base"
    /\ LET w == calls[2]
       IN  engines' = SetInstance(1, [Eng(1) EXCEPT !.w_matrix =
                          Stored(Eng(1), w.ds, w.dt, w.use_lora, w.lora_rank).w_matrix])
    /\ calls' = [calls EXCEPT ![2].pc = "result"]
    /\ UNCHANGED << last, ops, hist >>

\* lines 141-181: the spectra are compared (this may raise), the result is
\* built from self.lora_adapter and self.metadata is assigned
StoreMetadata ==
    /\ calls[2].pc = "result"
    /\ LET w == calls[2]
           r == StoreAndReturn(Eng(1), w.ns, w.ds, w.dt, w.use_lora, w.lora_rank, "none")
       IN  /\ engines' = SetInstance(1, r.engine)
           /\ calls' = [calls EXCEPT ![2].pc = "done", ![2].outcome = r.outcome]
    /\ UNCHANGED << last, ops, hist >>

NextRace ==
    \/ Begin(1)
    \/ GuardEpsilon(1)
    \/ Guard(1)
    \/ Base(1)
    \/ Adapter(1)
    \/ Norm(1)
    \/ Whole(1)
    \/ BeginCompute
    \/ StoreAdapter
    \/ StoreBase
    \/ StoreMetadata

SpecRace == InitConc /\ [][NextRace]_vars

\* ---------------------------------------------------------------- metrics
\* SpecMetrics: the metrics of compute_alignment, computed exactly on anchor
\* sets whose solves have closed forms.  The source columns are orthogonal,
\* column j has squared norm g[j] > 0; the target is the source with column j
\* scaled by a[j], plus a noise of squared norm e that is orthogonal to every
\* source column.  Errors are rationals num / den.
Frac(n, d) == [num |-> n, den |-> d]
FLeq(x, y) == x.num * y.den <= y.num * x.den
FLt(x, y) == x.num * y.den < y.num * x.den
FEq(x, y) == x.num * y.den = y.num * x.den
Zero == Frac(0, 1)
Sq(x) == x * x
Abs(x) == IF x < 0 THEN 0 - x ELSE x

\* mutant: the score is the linear approximation 1 - epsilon
FidelityScore_Linear(epsilon_final) ==
    Frac(epsilon_final.den - epsilon_final.num, epsilon_final.den)

\* line 141: fidelity_score = 1.0 / (1.0 + epsilon_final)
FidelityScore(epsilon_final) ==
    Frac(epsilon_final.den, epsilon_final.den + epsilon_final.num)

\* mutant: the quotient is not clamped at 0
ImprovementPct_NoClamp(epsilon_base, epsilon_final) ==
    IF epsilon_base.num > 0
    THEN Frac((epsilon_base.num * epsilon_final.den - epsilon_final.num * epsilon_base.den) * 100,
              epsilon_base.num * epsilon_final.den)
    ELSE Zero

\* line 142: max(0, (epsilon_base - epsilon_final) / epsilon_base * 100) if
\* epsilon_base > 0 else 0
ImprovementPct(epsilon_base, epsilon_final) ==
    IF epsilon_base.num > 0
    THEN LET x == Frac((epsilon_base.num * epsilon_final.den
                        - epsilon_final.num * epsilon_base.den) * 100,
                       epsilon_base.num * epsilon_final.den)
         IN  IF x.num > 0 THEN x ELSE Zero
    ELSE Zero

\* lines 141-142, 163-166: the metrics of the two errors
MetricsOf(epsilon_base, epsilon_final) ==
    [epsilon_base |-> epsilon_base, epsilon_final |-> epsilon_final,
     fidelity_score |-> FidelityScore(epsilon_final),
     improvement_pct |-> ImprovementPct(epsilon_base, epsilon_final)]

\* mutant: the reflection is dropped from the Procrustes solution
Rotation_Flipped(m, z) == IF m > 0 THEN 0 - 1 ELSE IF m < 0 THEN 1 ELSE z

\* line 85: orthogonal_procrustes on these anchors is diagonal, entry j the
\* sign of m = g[j] * a[j] (source' target is diagonal); for m = 0 the
\* factorization may return either sign z
Rotation(m, z) == IF m > 0 THEN 1 ELSE IF m < 0 THEN 0 - 1 ELSE z

\* lines 81-89, 98: the residual target - aligned_base is the source with
\* column j scaled by coef[j], plus the noise.  Procrustes leaves
\* a[j] - W[j][j]; least squares fits the scaling exactly.
BaseCoef(an, z) ==
    [j \in 1..an.ds |-> IF an.ds = an.dt THEN an.a[j] - Rotation(an.g[j] * an.a[j], z) ELSE 0]

\* line 92 (and 123): mean over the anchors of the squared row norms
MeanSq(an, coef) ==
    Frac(SumTo([j \in 1..an.ds |-> an.g[j] * Sq(coef[j])], an.ds) + an.e, an.n)

\* lines 108-116: W_lora_full is diagonal with entries coef[j] (the noise is
\* orthogonal to the source), its singular values are |coef[j]|; the k
\* largest are kept; of two equal singular values either axis may be kept
\* (the axis-aligned singular vectors LAPACK returns for a diagonal matrix)
KeptSets(coef, d, k) ==
    { K \in SUBSET (1..d) :
        /\ Cardinality(K) = Min(k, d)
        /\ \A i \in K, j \in (1..d) \ K : Abs(coef[i]) >= Abs(coef[j]) }

\* mutant: the correction is subtracted from the base alignment
Correction_Negated(c, kept) == IF kept THEN 0 - c ELSE 0

\* lines 115-119: column j of source @ A @ B, in units of source column j
Correction(c, kept) == IF kept THEN c ELSE 0

\* lines 97-135: epsilon_final
EpsilonFinal(an, coef, use_lora, lora_rank, K) ==
    IF CorrectionEnabled(use_lora, lora_rank)
    THEN MeanSq(an, [j \in 1..an.ds |-> coef[j] - Correction(coef[j], j \in K)])
    ELSE MeanSq(an, coef)

\* the anchor sets: equal dimensions 1 and 2, and 1 -> 2, 2 -> 1; N is at
\* least the number of source columns, one more when there is noise
AxisDims == {1, 2}
Scales == (0 - 3)..3
AnchorSets ==
    { an \in [n : 1..3, ds : AxisDims, dt : AxisDims, e : {0, 1},
              g : UNION { [1..d -> {1, 2}] : d \in AxisDims },
              a : UNION { [1..d -> Scales] : d \in AxisDims }] :
        /\ Len(an.g) = an.ds /\ Len(an.a) = an.ds
        /\ an.n \in {an.ds + an.e, 3}
        /\ Cardinality({ j \in 1..an.ds : an.a[j] = 0 }) <= 1
        /\ an.ds # an.dt => \A j \in 1..an.ds : an.a[j] = 1 }

\* one compute_alignment call on instance 1 with numeric anchors
Measure ==
    /\ last.op = "init"
    /\ \E an \in AnchorSets, use_lora \in BOOLEAN, lora_rank \in Ranks, z \in {0 - 1, 1} :
          LET coef == BaseCoef(an, z)
              r == CA(Eng(1), an.n, an.n, an.ds, an.dt, use_lora, lora_rank, "none")
          IN  \E K \in KeptSets(coef, Min(an.ds, an.dt), EffectiveRank(lora_rank, an.ds, an.dt)) :
                 /\ r.outcome = Ok
                 /\ engines' = SetInstance(1, r.engine)
                 /\ last' = [op |-> "compute_alignment", id |-> 1, outcome |-> Ok,
                             call |-> Some([anchors |-> an, use_lora |-> use_lora,
                                            lora_rank |-> lora_rank, kept |-> K]),
                             result |-> Some(MetricsOf(MeanSq(an, coef),
                                                       EpsilonFinal(an, coef, use_lora, lora_rank, K)))]
                 /\ hist' = HistAfter(1, r)
    /\ ops' = ops + 1
    /\ UNCHANGED calls

\* lines 141-142 applied to a pair of errors
EpsFractions == { Frac(p, q) : p \in 0..4, q \in {1, 2, 3} }
Evaluate ==
    /\ last.op = "init"
    /\ \E epsilon_base \in EpsFractions, epsilon_final \in EpsFractions :
          last' = [op |-> "metrics", id |-> 1, outcome |-> Ok,
                   call |-> None,
                   result |-> Some(MetricsOf(epsilon_base, epsilon_final))]
    /\ UNCHANGED << engines, ops, hist, calls >>

InitMetrics == InitConc
NextMetrics == Measure \/ Evaluate
SpecMetrics == InitMetrics /\ [][NextMetrics]_vars

\* ================================================================ claims
Min3(a, b, c) == Min(a, Min(b, c))

IsCompute == last.op = "compute_alignment"
ComputeReturned == IsCompute /\ last.outcome = Ok
Call == Get(last.call)
Result == Get(last.result)

\* C1: after a compute_alignment call that returned with correction disabled
\* (use_lora = False or lora_rank <= 0), the lora_adapter of the returned result
\* and the lora_adapter stored in the instance are both None, whatever earlier
\* calls on the instance computed.
C1_DisabledCorrectionIsNone ==
    (ComputeReturned /\ ~CorrectionEnabled(Call.use_lora, Call.lora_rank))
        => /\ IsNone(Result.lora_adapter)
           /\ IsNone(Eng(last.id).lora_adapter)

\* C2: when compute_alignment returns for use_lora = True, N >= 1 anchors and a
\* requested lora_rank above min(D_source, D_target, N), metadata.lora_rank is
\* the rank stored with the (A, B) factors.
C2_MetadataReportsEffectiveRank ==
    (ComputeReturned /\ Call.use_lora /\ Call.ns >= 1
        /\ Call.lora_rank > Min3(Call.ds, Call.dt, Call.ns))
        => /\ ~IsNone(Result.lora_adapter)
           /\ Result.metadata.lora_rank = Get(Result.lora_adapter).rank
           /\ Get(Eng(last.id).metadata).lora_rank = Get(Eng(last.id).lora_adapter).rank

\* C3: when compute_alignment returns with correction enabled and N >= 1, the
\* stored correction has rank k = min(lora_rank, min(D_source, D_target, N)):
\* A has k columns, B has k rows, the rank field is k.
C3_RankIsClampedByDimsAndN ==
    (ComputeReturned /\ CorrectionEnabled(Call.use_lora, Call.lora_rank) /\ Call.ns >= 1)
        => LET k == Min(Call.lora_rank, Min3(Call.ds, Call.dt, Call.ns))
               ad == Get(Eng(last.id).lora_adapter)
           IN  /\ ad.rank = k
               /\ Cols(ad.A.data) = k
               /\ Rows(ad.B.data) = k

\* the texts handed to deserialize that are malformed
MalformedKinds == DocKinds \ {"intact", "std_unsupported", "a_null"}
IsDeserialize == last.op = "deserialize"
Ready(i) == Live(i) /\ ~NotReady(Eng(i))
\* instances a and b hold the same transform and transform every batch alike
SameTransform(a, b) ==
    /\ a.w_matrix = b.w_matrix
    /\ a.lora_adapter = b.lora_adapter
    /\ \A X \in Batches : TransformOf(a, X, TRUE) = TransformOf(b, X, TRUE)

\* C4: round trip.  For every Ready instance T, serialize succeeds,
\* deserialize(serialize(T)) succeeds and holds the same base matrix and the
\* same correction (or absence of one) as T, and transform(., X, apply_lora=True)
\* gives the same outcome on both for every batch X; the instance a
\* deserialize call built from the serialization of instance j agrees with j.
C4_RoundTrip ==
    /\ \A i \in EngineIds :
          Ready(i) =>
              LET ser == SerializeOf(Eng(i))
              IN  /\ ser.outcome = Ok
                  /\ LET de == DeserializeOf(Get(ser.doc))
                     IN  /\ de.outcome = Ok
                         /\ SameTransform(Get(de.engine), Eng(i))
    /\ (IsDeserialize /\ last.outcome = Ok /\ Call.kind = "intact" /\ Call.from # 0)
          => SameTransform(Eng(last.id), Eng(Call.from))

\* C4 witness: instance 2 was deserialized from the serialization of instance
\* 1, which holds a correction, and transforms some batch.
C4_Witness ==
    /\ IsDeserialize /\ last.outcome = Ok /\ Call.kind = "intact" /\ Call.from = 1
    /\ ~IsNone(Eng(1).lora_adapter)
    /\ \E X \in Batches : TransformOf(Eng(2), X, TRUE).outcome = Ok

\* C5: transform, compute_epsilon and serialize raise the not-ready error and
\* return nothing on an instance built by the constructor on which no
\* compute_alignment call has returned, and never raise it on an instance on
\* which one has returned or that deserialize built.
C5_NotReadyExactlyBeforeSuccess ==
    (last.op \in {"transform", "compute_epsilon", "serialize"}) =>
        /\ (hist[last.id].origin = "constructor" /\ ~hist[last.id].succeeded)
              => (last.outcome = RuntimeErrorNotReady /\ IsNone(last.result))
        /\ (hist[last.id].succeeded \/ hist[last.id].origin = "deserialize")
              => last.outcome # RuntimeErrorNotReady

\* C6: there is no Ready -> Uninitialized step: an instance whose w_matrix is
\* not None keeps a w_matrix that is not None across every call.
C6_ReadyStaysReady ==
    [][\A i \in EngineIds : Ready(i) => Ready(i)']_vars

\* C6 witness: a compute_alignment call raised on an instance on which an
\* earlier call had returned, and the instance is still Ready.
C6_Witness ==
    IsCompute /\ last.outcome # Ok /\ hist[last.id].succeeded /\ Ready(last.id)

\* C7: compute_alignment raises the anchor-count error exactly when the two
\* anchor counts differ.
C7_CountErrorIffCountsDiffer ==
    IsCompute => ((last.outcome = ValueErrorCount) <=> (Call.ns # Call.nt))

\* C7 witness: a call with zero anchors on both sides and D_source # D_target
\* passed the count check and returned.
C7_Witness ==
    ComputeReturned /\ Call.ns = 0 /\ Call.nt = 0 /\ Call.ds # Call.dt

\* C8: deserialize of a malformed text (no JSON, no JSON object, a field
\* missing, w_matrix null or not a numeric matrix) raises and builds no instance.
C8_MalformedInputIsRejected ==
    (IsDeserialize /\ Call.kind \in MalformedKinds)
        => (last.outcome # Ok /\ ~Live(last.id))

\* C9: deserialize of a well-formed document whose standard_dim is unsupported
\* raises the constructor's standard_dim error and builds no instance, and no
\* malformed text raises that error.
C9_UnsupportedStdIsRejected ==
    /\ (IsDeserialize /\ Call.kind = "std_unsupported")
          => (last.outcome = ValueErrorStd /\ ~Live(last.id))
    /\ (IsDeserialize /\ Call.kind \in MalformedKinds)
          => last.outcome # ValueErrorStd

\* C9 witness: the serialization of instance 1 with its standard_dim replaced
\* by an unsupported size was handed to deserialize.
C9_Witness ==
    IsDeserialize /\ Call.kind = "std_unsupported" /\ Call.from = 1 /\ ~Live(2)

\* C10: every instance has standard_dim in {4096, 8192} before and after
\* every call, no call changes the standard_dim of an instance, and a
\* constructor call with another standard_dim raises and builds no instance.
C10_StandardDimFixed ==
    [][/\ \A i \in EngineIds :
             /\ Live(i) => (Live(i)' /\ Eng(i)'.standard_dim = Eng(i).standard_dim)
             /\ Live(i) => Eng(i).standard_dim \in STANDARD_DIMS
             /\ Live(i)' => Eng(i)'.standard_dim \in STANDARD_DIMS
       /\ (last'.op = "construct" /\ Get(last'.call).standard_dim \notin STANDARD_DIMS)
             => (last'.outcome = ValueErrorStd /\ ~Live(last.id)')]_vars

\* C10 witness: a constructor call with an unsupported standard_dim raised and
\* built nothing, next to an instance on which compute_alignment has returned.
C10_Witness ==
    /\ last.op = "construct" /\ last.outcome = ValueErrorStd /\ ~Live(last.id)
    /\ hist[1].succeeded /\ Eng(1).standard_dim = DefaultStd

\* elementwise sum of two matrices of the same shape
MatAdd(a, b) == [i \in 1..Rows(a) |-> [j \in 1..Cols(a) |-> a[i][j] + b[i][j]]]
SameShape(a, b) == Rows(a) = Rows(b) /\ Cols(a) = Cols(b)
IsTransform == last.op = "transform"

\* C11: on a Ready instance whose base matrix is D_source x D_target,
\* transform of a batch of D_source-dimensional vectors returns
\* vectors.W + vectors.A.B when apply_lora is true and a correction is stored,
\* and vectors.W alone when apply_lora is false or no correction is stored.
C11_TransformIsBasePlusCorrection ==
    (/\ IsTransform
     /\ Ready(last.id)
     /\ Get(Eng(last.id).w_matrix).ndim = 2
     /\ Cols(Call.vectors) = Rows(Get(Eng(last.id).w_matrix).data))
    => LET e == Eng(last.id)
           X == Call.vectors
           base == MatMul(X, Get(e.w_matrix).data)
       IN  /\ last.outcome = Ok
           /\ IF Call.apply_lora /\ ~IsNone(e.lora_adapter)
              THEN LET A == Get(e.lora_adapter).A
                       B == Get(e.lora_adapter).B
                   IN  /\ CanMul(X, A)
                       /\ CanMul(MatMul(X, A.data), B)
                       /\ SameShape(base, MatMul(MatMul(X, A.data), B.data))
                       /\ Result = MatAdd(base, MatMul(MatMul(X, A.data), B.data))
              ELSE Result = base

\* what the call c of a thread returns or raises when it runs alone on instance e
Alone(e, c) ==
    CASE c.op = "transform" ->
            [outcome |-> TransformOf(e, c.given, c.apply_lora).outcome,
             result |-> TransformOf(e, c.given, c.apply_lora).value]
      [] c.op = "compute_epsilon" ->
            [outcome |-> EpsilonOf(e, c.given[1], c.target).outcome,
             result |-> EpsilonOf(e, c.given[1], c.target).value]
      [] c.op = "serialize" ->
            [outcome |-> SerializeOf(e).outcome, result |-> SerializeOf(e).doc]
      [] OTHER ->
            [outcome |-> BoostOf(c.eps[1], c.eps[2]).outcome,
             result |-> BoostOf(c.eps[1], c.eps[2]).value]

\* C12: transform, compute_epsilon, estimate_fidelity_boost and serialize are
\* read-only.  No step of such a call, returning or raising, changes the
\* instance (base matrix, correction, metadata, standard_dim) or the input
\* vectors of the call, and a call whose steps interleave with the steps of
\* another thread's call returns or raises what it does when it runs alone.
C12_ReadOnlyCalls ==
    [][/\ engines' = engines
       /\ \A t \in Threads :
             /\ calls'[t].pc # "idle" => calls'[t].vectors = calls'[t].given
             /\ (calls[t].pc # "done" /\ calls'[t].pc = "done")
                   => /\ calls'[t].outcome = Alone(Eng(1), calls'[t]).outcome
                      /\ calls'[t].result = Alone(Eng(1), calls'[t]).result]_vars

\* C12 witness: a transform call that added the stored correction has returned
\* while a compute_epsilon call of the other thread is between its steps.
C12_Witness ==
    /\ calls[1].pc = "done" /\ calls[1].op = "transform" /\ calls[1].outcome = Ok
    /\ calls[1].apply_lora /\ ~IsNone(Eng(1).lora_adapter)
    /\ calls[2].op = "compute_epsilon" /\ calls[2].pc = "norm"

\* C13: the base matrix of a compute_alignment call is computed by the
\* Orthogonal Procrustes solve if and only if D_source = D_target and by the
\* least-squares projection if and only if D_source # D_target, whatever N,
\* use_lora, lora_rank and the instance's standard_dim are.
C13_AlgorithmByDimensions ==
    ComputeReturned =>
        /\ (Result.algorithm = "procrustes") <=> (Call.ds = Call.dt)
        /\ (Result.algorithm = "lstsq") <=> (Call.ds # Call.dt)

\* C13 witness: an instance of standard_dim 4096 solved anchors of different
\* dimensions, with correction, by least squares.
C13_Witness ==
    /\ ComputeReturned /\ Call.ds # Call.dt /\ Call.use_lora /\ Call.lora_rank > 0
    /\ Result.algorithm = "lstsq" /\ Eng(last.id).standard_dim = 4096

\* C15: after a compute_alignment call returns, the stored and the returned
\* metadata describe the call: source_dim, target_dim and n_anchor_points are
\* D_source, D_target and N, and use_lora / lora_rank say that a correction
\* was used exactly when the call computed one (use_lora=True with
\* lora_rank <= 0 is reported as no correction, rank 0).
C15_MetadataDescribesCall ==
    ComputeReturned =>
        LET meta == Result.metadata
            computed == CorrectionEnabled(Call.use_lora, Call.lora_rank)
        IN  /\ Eng(last.id).metadata = Some(meta)
            /\ meta.source_dim = Call.ds
            /\ meta.target_dim = Call.dt
            /\ meta.n_anchor_points = Call.ns
            /\ meta.use_lora <=> computed
            /\ computed => meta.lora_rank > 0
            /\ ~computed => meta.lora_rank = 0

\* C16: estimate_fidelity_boost returns for every pair of inputs, without
\* raising, a value in [0, 100], and 0 when epsilon >= baseline_epsilon.
C16_BoostReturnsWithinRange ==
    (last.op = "estimate_fidelity_boost") =>
        /\ last.outcome = Ok
        /\ ~IsNone(last.result)
        /\ Result >= 0 /\ Result <= 100
        /\ (Call.epsilon >= Call.baseline_epsilon) => Result = 0

\* the metrics a compute_alignment call on numeric anchors returned, and the
\* metrics of a pair of errors (SpecMetrics)
IsMeasure == last.op = "compute_alignment" /\ last.outcome = Ok
HasMetrics == last.op \in {"compute_alignment", "metrics"} /\ last.outcome = Ok
Disabled == ~Call.use_lora \/ Call.lora_rank <= 0

\* C14: when correction is disabled in a compute_alignment call
\* (use_lora=False, or lora_rank <= 0), the returned epsilon_final is
\* epsilon_base exactly and improvement_pct is 0, whatever the instance
\* computed in earlier calls.
C14_DisabledCorrectionKeepsBaseError ==
    (IsMeasure /\ Disabled) =>
        /\ Result.epsilon_final = Result.epsilon_base
        /\ Result.improvement_pct.num = 0

\* C14 witness: a call with use_lora=False and a positive lora_rank returned a
\* positive base error on an instance that holds the correction of an earlier call.
C14_Witness ==
    /\ IsMeasure /\ ~Call.use_lora /\ Call.lora_rank > 0
    /\ Result.epsilon_base.num > 0
    /\ ~IsNone(Eng(1).lora_adapter)

\* C17: improvement_pct is max(0, (epsilon_base - epsilon_final) /
\* epsilon_base * 100) when epsilon_base > 0 and 0 when epsilon_base is 0; for
\* all errors >= 0 it lies in [0, 100], also when epsilon_final > epsilon_base.
C17_ImprovementPctClamped ==
    HasMetrics =>
        LET eb == Result.epsilon_base
            ef == Result.epsilon_final
            imp == Result.improvement_pct
        IN  /\ FLeq(Zero, imp) /\ FLeq(imp, Frac(100, 1))
            /\ eb.num = 0 => imp.num = 0
            /\ (eb.num > 0 /\ FLeq(eb, ef)) => imp.num = 0
            /\ (eb.num > 0 /\ FLt(ef, eb))
                  => imp.num * eb.num * ef.den
                     = 100 * (eb.num * ef.den - ef.num * eb.den) * imp.den

\* C17 witness: the metrics of a final error above a positive base error.
C17_Witness ==
    /\ last.op = "metrics"
    /\ Result.epsilon_base.num > 0
    /\ FLt(Result.epsilon_base, Result.epsilon_final)
    /\ Result.improvement_pct.num = 0

\* C18: fidelity_score is 1 / (1 + epsilon_final); for every epsilon_final
\* >= 0 it lies in (0, 1], is 1 only when epsilon_final is 0, and is strictly
\* decreasing in epsilon_final.
C18_FidelityScoreBounded ==
    HasMetrics =>
        LET ef == Result.epsilon_final
            fid == Result.fidelity_score
        IN  /\ fid.num * (ef.den + ef.num) = fid.den * ef.den
            /\ FLt(Zero, fid) /\ FLeq(fid, Frac(1, 1))
            /\ FEq(fid, Frac(1, 1)) <=> ef.num = 0
            /\ \A other \in EpsFractions :
                  /\ FLt(ef, other) => FLt(FidelityScore(other), fid)
                  /\ FLt(other, ef) => FLt(fid, FidelityScore(other))

\* C18 witness: the metrics of a final error above 1.
C18_Witness ==
    /\ last.op = "metrics"
    /\ FLt(Frac(1, 1), Result.epsilon_final)
    /\ FLt(Result.fidelity_score, Frac(1, 2))

\* C19: with use_lora=True and lora_rank > 0, compute_alignment returns
\* epsilon_final <= epsilon_base, also when the correction is truncated to a
\* rank below the rank of the full least-squares correction.
C19_CorrectionNeverWorsens ==
    (IsMeasure /\ Call.use_lora /\ Call.lora_rank > 0)
        => FLeq(Result.epsilon_final, Result.epsilon_base)

\* C19 witness: a rank-1 correction of a rank-2 residual on 2-dimensional
\* anchors lowered the error and left the error of the dropped direction.
C19_Witness ==
    /\ IsMeasure /\ Call.use_lora /\ Call.lora_rank = 1
    /\ Call.anchors.ds = 2 /\ Call.anchors.dt = 2
    /\ FLt(Result.epsilon_final, Result.epsilon_base)
    /\ Result.epsilon_final.num > Call.anchors.e

\* the mean squared error of the identity mapping on the anchors
IdentityError(an) ==
    Frac(SumTo([j \in 1..an.ds |-> an.g[j] * Sq(1 - an.a[j])], an.ds) + an.e, an.n)

\* C20: when D_source = D_target and correction is disabled, epsilon_base is
\* at most the mean squared error of the identity mapping, for every anchor
\* set with N >= D_source.
C20_ProcrustesBeatsIdentity ==
    (IsMeasure /\ Disabled /\ Call.anchors.ds = Call.anchors.dt
        /\ Call.anchors.n >= Call.anchors.ds)
        => FLeq(Result.epsilon_base, IdentityError(Call.anchors))

\* C20 witness: anchors whose target mirrors a source direction; the solve
\* is strictly better than the identity.
C20_Witness ==
    /\ IsMeasure /\ Disabled /\ Call.anchors.ds = 2 /\ Call.anchors.dt = 2
    /\ \E j \in 1..2 : Call.anchors.a[j] < 0
    /\ FLt(Result.epsilon_base, IdentityError(Call.anchors))
    /\ Result.epsilon_base.num > 0

\* C21: instances are independent.  No call on one instance (constructor,
\* compute_alignment, transform, compute_epsilon, estimate_fidelity_boost,
\* serialize) and no deserialize call that builds another instance changes
\* the base matrix, correction, metadata or standard_dim of any other instance.
C21_InstancesIndependent ==
    [][\A i \in EngineIds : (Live(i) /\ i # last'.id) => engines'[i] = engines[i]]_vars

\* C21 witness: a compute_alignment call stored a base matrix and a
\* correction in instance 2 while instance 1 is as its constructor left it.
C21_Witness ==
    /\ ComputeReturned /\ last.id = 2 /\ Ready(2) /\ ~IsNone(Eng(2).lora_adapter)
    /\ Live(1) /\ Eng(1) = NewEngine(DefaultStd)

\* C22: on every Ready instance the output of serialize holds exactly the
\* fields w_matrix, lora_adapter, metadata and standard_dim; lora_adapter is
\* null when no correction is stored and otherwise carries A, B and rank, all
\* three filled.
C22_SerializedFieldsComplete ==
    (last.op = "serialize" /\ Ready(last.id)) =>
        /\ last.outcome = Ok
        /\ Result.keys = FieldNames
        /\ Result.w_matrix = ToList(Get(Eng(last.id).w_matrix))
        /\ Result.standard_dim = Eng(last.id).standard_dim
        /\ Result.metadata = Eng(last.id).metadata
        /\ IsNone(Result.lora_adapter) <=> IsNone(Eng(last.id).lora_adapter)
        /\ ~IsNone(Result.lora_adapter) =>
              /\ Get(Result.lora_adapter).A.t = "array"
              /\ Get(Result.lora_adapter).B.t = "array"
              /\ Get(Result.lora_adapter).rank = Get(Eng(last.id).lora_adapter).rank

\* C23: compute_alignment never mutates its anchor inputs: after the call
\* returns or raises, source_vectors and target_vectors hold the values they
\* held before the call, on the Procrustes and on the least-squares path, with
\* and without correction.
C23_AnchorsNotMutated ==
    IsCompute => Call.held = Call.passed

\* C23 witness: a call with correction on N >= 1 anchors of different
\* dimensions went through the least-squares solve and the residual of line
\* 98, and the caller's target array holds its values.
C23_Witness ==
    /\ IsCompute /\ Call.ns >= 1 /\ Call.ns = Call.nt
    /\ last.outcome \in {Ok, BroadcastError}
    /\ Call.use_lora /\ Call.lora_rank > 0 /\ Call.ds # Call.dt
    /\ Call.held.target = Fill(Call.nt, Call.dt, 1)

\* C24: a compute_alignment call rejected for differing anchor counts leaves
\* the instance exactly as it was: base matrix, correction and metadata are
\* unchanged, an Uninitialized instance stays Uninitialized and a Ready
\* instance transforms every batch as before.
C24_CountRejectionChangesNothing ==
    [][(last'.op = "compute_alignment" /\ last'.outcome = ValueErrorCount)
          => \A i \in EngineIds :
                (i = last'.id) =>
                    /\ engines'[i] = engines[i]
                    /\ Ready(i) <=> Ready(i)'
                    /\ \A X \in Batches, apply_lora \in BOOLEAN :
                          TransformOf(Eng(i), X, apply_lora)'
                              = TransformOf(Eng(i), X, apply_lora)]_vars

\* C24 witness: a call with differing anchor counts was rejected on a Ready
\* instance that holds a correction and metadata.
C24_Witness ==
    /\ IsCompute /\ last.outcome = ValueErrorCount /\ Call.ns # Call.nt
    /\ Ready(last.id) /\ ~IsNone(Eng(last.id).lora_adapter)
    /\ ~IsNone(Eng(last.id).metadata)

\* the instances on which only the constructor and compute_alignment acted
BuiltByCompute(i) == Live(i) /\ hist[i].origin = "constructor"

\* C25: in every state reached by compute_alignment calls, whenever a base
\* matrix and a correction are both stored their shapes are compatible: A has
\* the base matrix's row count, B its column count, and A has as many columns
\* as B has rows.
C25_StoredShapesCompatible ==
    \A i \in EngineIds :
        (BuiltByCompute(i) /\ Ready(i) /\ ~IsNone(Eng(i).lora_adapter)) =>
            LET W == Get(Eng(i).w_matrix).data
                A == Get(Eng(i).lora_adapter).A.data
                B == Get(Eng(i).lora_adapter).B.data
            IN  /\ Rows(A) = Rows(W)
                /\ Cols(B) = Cols(W)
                /\ Cols(A) = Rows(B)

\* C26: atomicity on failure.  A compute_alignment call that raises, at the
\* validation or in any factorization, leaves the base matrix, the correction
\* and the metadata of the instance as they were before the call.
C26_FailedCallChangesNothing ==
    [][(last'.op = "compute_alignment" /\ last'.outcome # Ok)
          => \A i \in EngineIds : (i = last'.id) => engines'[i] = engines[i]]_vars

\* SpecRace: the instance before thread 2's compute_alignment call and the
\* instance that call leaves when it runs alone
RaceOld == IF calls[2].pc = "idle" THEN Eng(1) ELSE calls[2].before
RaceNew ==
    IF calls[2].pc = "idle" THEN Eng(1)
    ELSE CA(RaceOld, calls[2].ns, calls[2].ns, calls[2].ds, calls[2].dt,
            calls[2].use_lora, calls[2].lora_rank, "none").engine
ReadDone == calls[1].pc = "done" /\ calls[1].op = "transform"
\* the call of thread 1 ended as it ends alone on instance e
EndsAsOn(e) ==
    /\ calls[1].outcome = Alone(e, calls[1]).outcome
    /\ calls[1].result = Alone(e, calls[1]).result

Mixes(old, new) ==
    { [x EXCEPT !.lora_adapter = y.lora_adapter] : x \in {old, new}, y \in {old, new} }

C28_MetadataAgreesWithTransform ==
    \A i \in EngineIds :
        (Ready(i) /\ hist[i].clean) =>
            /\ ~IsNone(Eng(i).metadata)
            /\ LET meta == Get(Eng(i).metadata)
                   W == Get(Eng(i).w_matrix).data
               IN  /\ meta.source_dim = Rows(W)
                   /\ meta.target_dim = Cols(W)
                   /\ meta.use_lora <=> ~IsNone(Eng(i).lora_adapter)

SameBesidesMatrices(a, b) ==
    /\ b.standard_dim = a.standard_dim
    /\ b.metadata = a.metadata
    /\ IsNone(b.lora_adapter) <=> IsNone(a.lora_adapter)
    /\ ~IsNone(a.lora_adapter) => Get(b.lora_adapter).rank = Get(a.lora_adapter).rank

\* C30: the codec preserves everything besides the matrices.  For every Ready
\* instance E, deserialize(serialize(E)) has the same standard_dim, the same
\* metadata and a correction of the same rank exactly when E has one, and
\* serialize(deserialize(serialize(E))) equals serialize(E); the instance a
\* deserialize call built from the serialization of instance j agrees with j.
C30_CodecPreservesTheRest ==
    /\ \A i \in EngineIds :
          Ready(i) =>
              LET ser == SerializeOf(Eng(i))
                  de == DeserializeOf(Get(ser.doc))
              IN  /\ ser.outcome = Ok
                  /\ de.outcome = Ok
                  /\ SameBesidesMatrices(Eng(i), Get(de.engine))
                  /\ SerializeOf(Get(de.engine)) = ser
    /\ (IsDeserialize /\ last.outcome = Ok /\ Call.kind = "intact" /\ Call.from # 0)
          => SameBesidesMatrices(Eng(Call.from), Eng(last.id))

\* C30 witness: instance 2 was deserialized from the serialization of
\* instance 1, which holds metadata and a correction of rank 2, and holds
\* that metadata and a correction of rank 2.
C30_Witness ==
    /\ IsDeserialize /\ last.outcome = Ok /\ Call.kind = "intact" /\ Call.from = 1
    /\ last.id = 2
    /\ ~IsNone(Eng(1).metadata) /\ Eng(2).metadata = Eng(1).metadata
    /\ ~IsNone(Eng(1).lora_adapter) /\ Get(Eng(1).lora_adapter).rank = 2
    /\ Get(Eng(2).lora_adapter).rank = 2

====
